---------------------------- MODULE Spec2Model ----------------------------
(***************************************************************************)
(* Model of the 2-D geodesic ray tracer of src/src/main_2d.rs: the black   *)
(* hole, the rays with their RK4 integration and trail, and the host loop  *)
(* (events, tick, draw).                                                   *)
(*                                                                         *)
(* The program computes in IEEE floating point.  The model keeps the       *)
(* structure of that arithmetic (a rounded mantissa and an exponent, the   *)
(* values NaN and +/-Inf, comparisons that are false on NaN) with a        *)
(* decimal mantissa of four digits, so that every product of two           *)
(* mantissas stays inside the integers of the model checker.               *)
(***************************************************************************)
EXTENDS Integers, Sequences, FiniteSets

---------------------------------------------------------------------------
(* Floating point numbers: [k, m, e] is m * 10^e when k = "num", with      *)
(* m = 0 or 1000 <= |m| <= 9999.                                           *)

MantDigits == 4

MantMin == 1000

MantMax == 9999

F64MaxExp == 308

F32MaxExp == 38

NaN == [k |-> "nan", m |-> 0, e |-> 0]

PosInf == [k |-> "inf", m |-> 1, e |-> 0]

NegInf == [k |-> "inf", m |-> -1, e |-> 0]

Zero == [k |-> "num", m |-> 0, e |-> 0]

Abs(n) == IF n < 0 THEN -n ELSE n

Sign(n) == IF n < 0 THEN -1 ELSE IF n > 0 THEN 1 ELSE 0

InfOf(s) == IF s < 0 THEN NegInf ELSE PosInf

Pow10(n) == <<1, 10, 100, 1000, 10000, 100000, 1000000, 10000000, 100000000, 1000000000>>[n + 1]

IsNaN(a) == a.k = "nan"

IsInf(a) == a.k = "inf"

IsNum(a) == a.k = "num"

IsZero(a) == a.k = "num" /\ a.m = 0

\* Round the integer n * 10^e to MantDigits digits (half away from zero);
\* a result beyond the exponent range maxExp is an infinity, one below it
\* is flushed to zero.
RECURSIVE Round(_, _, _)
Round(n, e, maxExp) ==
    IF n = 0 THEN Zero
    ELSE IF Abs(n) > MantMax
         THEN Round(Sign(n) * ((Abs(n) + 5) \div 10), e + 1, maxExp)
    ELSE IF Abs(n) < MantMin
         THEN Round(n * 10, e - 1, maxExp)
    ELSE IF e + MantDigits - 1 > maxExp THEN InfOf(n)
    ELSE IF e + MantDigits - 1 < -maxExp THEN Zero
    ELSE [k |-> "num", m |-> n, e |-> e]

\* A literal: digits * 10^e.
Lit(n, e) == Round(n, e, F64MaxExp)

\* The program passes its arguments by value.  An operator that uses an
\* argument more than once takes it through a singleton set, so that the
\* argument is computed once: Only({e(x) : x \in {a}}) is e(a).
Only(S) == CHOOSE v \in S : TRUE

Neg(a) == Only({IF IsNaN(x) THEN NaN ELSE [x EXCEPT !.m = -x.m] : x \in {a}})

Mul(a, b) ==
    Only({IF IsNaN(x) \/ IsNaN(y) THEN NaN
          ELSE IF IsInf(x) \/ IsInf(y)
               THEN IF IsZero(x) \/ IsZero(y) THEN NaN ELSE InfOf(x.m * y.m)
          ELSE Round(x.m * y.m, x.e + y.e, F64MaxExp)
          : x \in {a}, y \in {b}})

Div(a, b) ==
    Only({IF IsNaN(x) \/ IsNaN(y) THEN NaN
          ELSE IF IsInf(x)
               THEN (IF IsInf(y) THEN NaN ELSE InfOf(x.m * (IF y.m < 0 THEN -1 ELSE 1)))
          ELSE IF IsInf(y) THEN Zero
          ELSE IF y.m = 0 THEN (IF x.m = 0 THEN NaN ELSE InfOf(x.m))
          ELSE Round(Sign(x.m) * Sign(y.m) * ((Abs(x.m) * 100000) \div Abs(y.m)),
                     x.e - y.e - 5, F64MaxExp)
          : x \in {a}, y \in {b}})

Add(a, b) ==
    Only({IF IsNaN(x) \/ IsNaN(y) THEN NaN
          ELSE IF IsInf(x) THEN (IF IsInf(y) /\ x.m # y.m THEN NaN ELSE x)
          ELSE IF IsInf(y) THEN y
          ELSE IF x.m = 0 THEN y
          ELSE IF y.m = 0 THEN x
          ELSE IF x.e >= y.e
               THEN IF x.e - y.e > MantDigits THEN x
                    ELSE Round(x.m * Pow10(x.e - y.e) + y.m, y.e, F64MaxExp)
          ELSE IF y.e - x.e > MantDigits THEN y
               ELSE Round(y.m * Pow10(y.e - x.e) + x.m, x.e, F64MaxExp)
          : x \in {a}, y \in {b}})

Sub(a, b) == Add(a, Neg(b))

\* -1, 0, 1 for a < b, a = b, a > b; neither is NaN.
Cmp(a, b) ==
    IF IsInf(a) /\ IsInf(b) THEN Sign(a.m - b.m)
    ELSE IF IsInf(a) THEN a.m
    ELSE IF IsInf(b) THEN -b.m
    ELSE IF Sign(a.m) # Sign(b.m) THEN Sign(Sign(a.m) - Sign(b.m))
    ELSE IF a.m = 0 THEN 0
    ELSE IF a.e # b.e THEN Sign(a.m) * Sign(a.e - b.e)
    ELSE Sign(a.m - b.m)

Lt(a, b) == \E x \in {a}, y \in {b} : ~IsNaN(x) /\ ~IsNaN(y) /\ Cmp(x, y) < 0

Le(a, b) == \E x \in {a}, y \in {b} : ~IsNaN(x) /\ ~IsNaN(y) /\ Cmp(x, y) <= 0

Gt(a, b) == \E x \in {a}, y \in {b} : ~IsNaN(x) /\ ~IsNaN(y) /\ Cmp(x, y) > 0

\* f64::max: the other operand when one is NaN.
Max(a, b) ==
    Only({IF IsNaN(x) THEN y ELSE IF IsNaN(y) THEN x ELSE IF Cmp(x, y) >= 0 THEN x ELSE y
          : x \in {a}, y \in {b}})

\* floor(sqrt(n)) by bisection on [lo, hi].
RECURSIVE IsqrtIn(_, _, _)
IsqrtIn(n, lo, hi) ==
    IF lo >= hi THEN lo
    ELSE Only({IF mid * mid <= n THEN IsqrtIn(n, mid, hi) ELSE IsqrtIn(n, lo, mid - 1)
               : mid \in {(lo + hi + 1) \div 2}})

Isqrt(n) == IsqrtIn(n, 0, 46340)

Sqrt(a) ==
    Only({IF IsNaN(x) THEN NaN
          ELSE IF IsInf(x) THEN (IF x.m > 0 THEN PosInf ELSE NaN)
          ELSE IF x.m < 0 THEN NaN
          ELSE IF x.m = 0 THEN Zero
          ELSE IF x.e % 2 = 0
               THEN Round(Isqrt(x.m * 10000), (x.e - 4) \div 2, F64MaxExp)
               ELSE Round(Isqrt(x.m * 100000), (x.e - 5) \div 2, F64MaxExp)
          : x \in {a}})

\* `as f32`: one digit less of mantissa and the exponent range of f32.
AsF32(a) ==
    Only({IF ~IsNum(x) \/ x.m = 0 THEN x
          ELSE Round(Sign(x.m) * ((Abs(x.m) + 5) \div 10) * 10, x.e, F32MaxExp)
          : x \in {a}})

\* Angles are reduced in milliradians, with pi = 3142.
PiMilli == 3142

RECURSIVE Pow10Mod(_, _)
Pow10Mod(n, q) == IF n = 0 THEN 1 % q ELSE (10 * Pow10Mod(n - 1, q)) % q

\* The finite number a in thousandths, reduced to [0, 2 pi).
AngleMilli(a) ==
    LET s == a.e + 3
        q == 2 * PiMilli
    IN  IF s >= 0
        THEN (((a.m % q) * Pow10Mod(s, q)) % q)
        ELSE IF -s > 9 THEN 0
        ELSE (Sign(a.m) * ((Abs(a.m) + Pow10(-s) \div 2) \div Pow10(-s))) % q

\* sin of x milliradians, 0 <= x <= pi, in ten-thousandths:
\* 16 x (pi - x) / (5 pi^2 - 4 x (pi - x)).
SinArc(x) ==
    LET p == x * (PiMilli - x)
        den == (5 * ((PiMilli * PiMilli) \div 4) - p) \div 64
    IN  (4 * (p \div 64) * 10000 + den \div 2) \div den

SinMilli(x) == IF x <= PiMilli THEN SinArc(x) ELSE -SinArc(x - PiMilli)

Sin(a) ==
    Only({IF ~IsNum(x) THEN NaN
          ELSE Round(SinMilli(AngleMilli(x)), -4, F64MaxExp)
          : x \in {a}})

Cos(a) ==
    Only({IF ~IsNum(x) THEN NaN
          ELSE Round(SinMilli((AngleMilli(x) + PiMilli \div 2) % (2 * PiMilli)),
                     -4, F64MaxExp)
          : x \in {a}})

\* atan z in milliradians for z in ten-thousandths, 0 <= z <= 1:
\* z (pi/4 + 0.273 (1 - z)).
AtanMilli(z) == (z * (7854 + (2730 * (10000 - z)) \div 10000) + 50000) \div 100000

\* The finite number a >= 0, at most 1, in ten-thousandths.
Frac4(a) ==
    IF a.m = 0 \/ a.e < -13 THEN 0
    ELSE IF a.e >= -4 THEN a.m * Pow10(a.e + 4)
    ELSE (a.m + Pow10(-4 - a.e) \div 2) \div Pow10(-4 - a.e)

Atan2(y_, x_) ==
    Only({IF IsNaN(y) \/ IsNaN(x) THEN NaN
          ELSE LET ay == [y EXCEPT !.m = Abs(y.m)]
                   ax == [x EXCEPT !.m = Abs(x.m)]
                   base == IF IsInf(y)
                           THEN (IF IsInf(x) THEN PiMilli \div 4 ELSE PiMilli \div 2)
                           ELSE IF IsInf(x) \/ y.m = 0 THEN 0
                           ELSE IF x.m = 0 THEN PiMilli \div 2
                           ELSE IF Cmp(ay, ax) <= 0 THEN AtanMilli(Frac4(Div(ay, ax)))
                           ELSE PiMilli \div 2 - AtanMilli(Frac4(Div(ax, ay)))
                   full == IF x.m < 0 THEN PiMilli - base ELSE base
               IN  Round((IF y.m < 0 THEN -1 ELSE 1) * full, -3, F64MaxExp)
          : y \in {y_}, x \in {x_}})

---------------------------------------------------------------------------
(* Constants of the program.                                               *)

One == Lit(1, 0)

Two == Lit(2, 0)

Six == Lit(6, 0)

G == Lit(6674, -14)

C == Lit(2998, 5)

\* Engine::new: the fields the simulation reads.
EngineNew == [world_width |-> AsF32(Lit(1, 11)), world_height |-> AsF32(Lit(75, 9))]

\* BlackHole::new
BlackHoleNew(mass) ==
    [position |-> <<Zero, Zero, Zero>>,
     mass |-> mass,
     r_s |-> Div(Mul(Mul(Two, G), mass), Mul(C, C))]

vec2(x, y) == [x |-> x, y |-> y]

\* Ray::new
RayNew(pos, dir, rs) ==
    LET x == pos.x
        y == pos.y
    IN  Only({Only({LET l == Mul(Mul(r, r), dphi)
                        f == Sub(One, Div(rs, r))
                        dt_dlambda == Sqrt(Add(Div(Mul(dr, dr), Mul(f, f)),
                                               Div(Mul(Mul(Mul(r, r), dphi), dphi), f)))
                        e == Mul(f, dt_dlambda)
                    IN  [x |-> x, y |-> y, r |-> r, phi |-> phi, dr |-> dr, dphi |-> dphi,
                         trail |-> <<vec2(AsF32(x), AsF32(y))>>,
                         e |-> e, l |-> l]
                    : dr \in {Add(Mul(dir.x, Cos(phi)), Mul(dir.y, Sin(phi)))},
                      dphi \in {Div(Add(Mul(Neg(dir.x), Sin(phi)), Mul(dir.y, Cos(phi))),
                                    Max(r, Lit(1, -9)))}})
              : r \in {Sqrt(Add(Mul(x, x), Mul(y, y)))}, phi \in {Atan2(y, x)}})

geodesic_rhs(ray_, rs) ==
    Only({LET r == ray.r
              dr == ray.dr
              dphi == ray.dphi
              e == ray.e
              f == Sub(One, Div(rs, r))
              dt_dlambda == Div(e, f)
          IN  << dr,
                 dphi,
                 Add(Add(Mul(Mul(Neg(Div(rs, Mul(Mul(Two, r), r))), f),
                             Mul(dt_dlambda, dt_dlambda)),
                         Mul(Div(rs, Mul(Mul(Mul(Two, r), r), f)), Mul(dr, dr))),
                     Mul(Sub(r, rs), Mul(dphi, dphi))),
                 Div(Mul(Mul(Lit(-2, 0), dr), dphi), r) >>
          : ray \in {ray_}})

\* out[i] = a[i] + b[i] * factor, for i in 0..4
add_state(a_, b_, factor_) ==
    Only({<<Add(a[1], Mul(b[1], factor)), Add(a[2], Mul(b[2], factor)),
            Add(a[3], Mul(b[3], factor)), Add(a[4], Mul(b[4], factor))>>
          : a \in {a_}, b \in {b_}, factor \in {factor_}})

\* The ray with (r, phi, dr, dphi) replaced by the entries of temp.
WithState(ray, temp_) ==
    Only({[ray EXCEPT !.r = temp[1], !.phi = temp[2], !.dr = temp[3], !.dphi = temp[4]]
          : temp \in {temp_}})

\* (dlam / 6.0) * (k1[i] + 2.0 * k2[i] + 2.0 * k3[i] + k4[i])
Increment(dlam, k1, k2, k3, k4, i) ==
    Mul(Div(dlam, Six),
        Add(Add(Add(k1[i], Mul(Two, k2[i])), Mul(Two, k3[i])), k4[i]))

\* geodesic_rhs at the clone of ray whose state is y0 + k * factor.
Stage(ray, k, factor, rs) ==
    geodesic_rhs(WithState(ray, add_state(<<ray.r, ray.phi, ray.dr, ray.dphi>>, k, factor)),
                 rs)

\* Rk4Increments whose third and fourth stages start from the state of the
\* stage before and not from y0.
Rk4Increments_Chained(ray, dlam, rs) ==
    Only({Only({Only({Only({
        <<Increment(dlam, k1, k2, k3, k4, 1), Increment(dlam, k1, k2, k3, k4, 2),
          Increment(dlam, k1, k2, k3, k4, 3), Increment(dlam, k1, k2, k3, k4, 4)>>
        : k4 \in {Stage(WithState(ray, add_state(
                             add_state(<<ray.r, ray.phi, ray.dr, ray.dphi>>,
                                       k1, Div(dlam, Two)),
                             k2, Div(dlam, Two))),
                         k3, dlam, rs)}})
        : k3 \in {Stage(WithState(ray, add_state(<<ray.r, ray.phi, ray.dr, ray.dphi>>,
                                                 k1, Div(dlam, Two))),
                         k2, Div(dlam, Two), rs)}})
        : k2 \in {Stage(ray, k1, Div(dlam, Two), rs)}})
        : k1 \in {geodesic_rhs(ray, rs)}})

\* The four increments of one RK4 step.
Rk4Increments(ray, dlam, rs) ==
    Only({Only({Only({Only({
        <<Increment(dlam, k1, k2, k3, k4, 1), Increment(dlam, k1, k2, k3, k4, 2),
          Increment(dlam, k1, k2, k3, k4, 3), Increment(dlam, k1, k2, k3, k4, 4)>>
        : k4 \in {Stage(ray, k3, dlam, rs)}})
        : k3 \in {Stage(ray, k2, Div(dlam, Two), rs)}})
        : k2 \in {Stage(ray, k1, Div(dlam, Two), rs)}})
        : k1 \in {geodesic_rhs(ray, rs)}})

\* Advance that also stores l recomputed from the new state.
Advance_RecomputesL(ray, inc_) ==
    Only({[ray EXCEPT !.r = Add(@, inc[1]),
                      !.phi = Add(@, inc[2]),
                      !.dr = Add(@, inc[3]),
                      !.dphi = Add(@, inc[4]),
                      !.l = Mul(Mul(Add(ray.r, inc[1]), Add(ray.r, inc[1])),
                                Add(ray.dphi, inc[4]))]
          : inc \in {inc_}})

\* ray.r += ...; ray.phi += ...; ray.dr += ...; ray.dphi += ...
Advance(ray, inc_) ==
    Only({[ray EXCEPT !.r = Add(@, inc[1]),
                      !.phi = Add(@, inc[2]),
                      !.dr = Add(@, inc[3]),
                      !.dphi = Add(@, inc[4])]
          : inc \in {inc_}})

rk4_step(ray, dlam, rs) == Advance(ray, Rk4Increments(ray, dlam, rs))

max_distance == Lit(2, 11)

\* The spacing below which a position is not added to the trail.
TrailSpacing == AsF32(Lit(1, 8))

\* The number of points a trail keeps (800 in the program).
TrailCap == 3

\* The distance of two trail points, computed in f32.
Distance(p, q) ==
    LET dx == AsF32(Sub(p.x, q.x))
        dy == AsF32(Sub(p.y, q.y))
    IN  AsF32(Sqrt(AsF32(Add(AsF32(Mul(dx, dx)), AsF32(Mul(dy, dy))))))

\* ShouldAddPoint without the decimation test.
ShouldAddPoint_Always(trail, current_pos) == TRUE

\* should_add_point of Ray::step
ShouldAddPoint(trail, current_pos) ==
    IF Len(trail) > 0
    THEN Gt(Distance(current_pos, trail[Len(trail)]), TrailSpacing)
    ELSE TRUE

\* PushTrail that makes room by dropping the newest point kept.
PushTrail_EvictsNewest(trail, current_pos) ==
    IF Len(trail) >= TrailCap
    THEN Append(SubSeq(trail, 1, TrailCap - 1), current_pos)
    ELSE Append(trail, current_pos)

\* PushTrail that empties a trail grown over the capacity.
PushTrail_Clears(trail, current_pos) ==
    LET pushed == Append(trail, current_pos)
    IN  IF Len(pushed) > TrailCap THEN <<>> ELSE pushed

\* PushTrail without the eviction of the oldest point.
PushTrail_NoEvict(trail, current_pos) == Append(trail, current_pos)

\* trail.push(current_pos), then trail.remove(0) when the trail is too long
PushTrail(trail, current_pos) ==
    LET pushed == Append(trail, current_pos)
    IN  IF Len(pushed) > TrailCap THEN Tail(pushed) ELSE pushed

\* Integrate that recomputes x and y from r and phi as they were before
\* rk4_step.
Integrate_StalePosition(ray, dlam, rs) ==
    Only({Only({LET current_pos == vec2(AsF32(moved.x), AsF32(moved.y))
                IN  IF Gt(moved.r, max_distance) THEN [ray |-> moved, keep |-> FALSE]
                    ELSE IF ShouldAddPoint(moved.trail, current_pos)
                         THEN [ray |-> [moved EXCEPT !.trail = PushTrail(@, current_pos)],
                               keep |-> TRUE]
                         ELSE [ray |-> moved, keep |-> TRUE]
                : moved \in {[s EXCEPT !.x = Mul(ray.r, Cos(ray.phi)),
                                       !.y = Mul(ray.r, Sin(ray.phi))]}})
          : s \in {rk4_step(ray, dlam, rs)}})

\* Integrate without the test of the escape radius.
Integrate_NoEscape(ray, dlam, rs) ==
    Only({Only({LET current_pos == vec2(AsF32(moved.x), AsF32(moved.y))
                IN  IF ShouldAddPoint(moved.trail, current_pos)
                    THEN [ray |-> [moved EXCEPT !.trail = PushTrail(@, current_pos)],
                          keep |-> TRUE]
                    ELSE [ray |-> moved, keep |-> TRUE]
                : moved \in {[s EXCEPT !.x = Mul(s.r, Cos(s.phi)),
                                       !.y = Mul(s.r, Sin(s.phi))]}})
          : s \in {rk4_step(ray, dlam, rs)}})

\* What Ray::step does to a ray that is outside the horizon: s is the ray
\* after rk4_step, moved the ray with x and y recomputed.
Integrate(ray, dlam, rs) ==
    Only({Only({LET current_pos == vec2(AsF32(moved.x), AsF32(moved.y))
                IN  IF Gt(moved.r, max_distance) THEN [ray |-> moved, keep |-> FALSE]
                    ELSE IF ShouldAddPoint(moved.trail, current_pos)
                         THEN [ray |-> [moved EXCEPT !.trail = PushTrail(@, current_pos)],
                               keep |-> TRUE]
                         ELSE [ray |-> moved, keep |-> TRUE]
                : moved \in {[s EXCEPT !.x = Mul(s.r, Cos(s.phi)),
                                       !.y = Mul(s.r, Sin(s.phi))]}})
          : s \in {rk4_step(ray, dlam, rs)}})

\* Ray::step that integrates a ray found at or below the horizon before it
\* returns false.
step_StepsCaptured(ray, dlam, rs) ==
    Only({IF Le(ray.r, rs) THEN [ray |-> res.ray, keep |-> FALSE] ELSE res
          : res \in {Integrate(ray, dlam, rs)}})

\* Ray::step that keeps a ray found at or below the horizon.
step_KeepCaptured(ray, dlam, rs) ==
    IF Le(ray.r, rs) THEN [ray |-> ray, keep |-> TRUE]
    ELSE Integrate(ray, dlam, rs)

\* Ray::step: the ray as it is left, and the value returned.
step(ray, dlam, rs) ==
    IF Le(ray.r, rs) THEN [ray |-> ray, keep |-> FALSE]
    ELSE Integrate(ray, dlam, rs)

---------------------------------------------------------------------------
(* The camera of the 3-D renderer (camera.rs): every field is an f32.      *)

Mul32(a, b) == AsF32(Mul(a, b))

Div32(a, b) == AsF32(Div(a, b))

Add32(a, b) == AsF32(Add(a, b))

Sub32(a, b) == AsF32(Sub(a, b))

PI == AsF32(Lit(PiMilli, -3))

\* f32::clamp: a NaN stays a NaN.
Clamp(x_, lo, hi) ==
    Only({IF Lt(x, lo) THEN lo ELSE IF Gt(x, hi) THEN hi ELSE x : x \in {x_}})

\* f32::acos, by atan2(sqrt(1 - x^2), x); NaN outside [-1, 1].
Acos(x_) ==
    Only({AsF32(Atan2(Sqrt(Sub(One, Mul(x, x))), x)) : x \in {x_}})

vec3(x, y, z) == [x |-> x, y |-> y, z |-> z]

VScale(v_, s_) ==
    Only({vec3(Mul32(v.x, s), Mul32(v.y, s), Mul32(v.z, s)) : v \in {v_}, s \in {s_}})

VDiv(v_, s_) ==
    Only({vec3(Div32(v.x, s), Div32(v.y, s), Div32(v.z, s)) : v \in {v_}, s \in {s_}})

VAdd(a_, b_) ==
    Only({vec3(Add32(a.x, b.x), Add32(a.y, b.y), Add32(a.z, b.z)) : a \in {a_}, b \in {b_}})

VNeg(v_) == Only({vec3(Neg(v.x), Neg(v.y), Neg(v.z)) : v \in {v_}})

\* glm::length
length(v_) ==
    Only({AsF32(Sqrt(Add32(Add32(Mul32(v.x, v.x), Mul32(v.y, v.y)), Mul32(v.z, v.z))))
          : v \in {v_}})

\* glm::normalize: v / |v|, NaN in every component for the zero vector.
normalize(v_) == Only({VDiv(v, length(v)) : v \in {v_}})

\* glm::cross
cross(a_, b_) ==
    Only({vec3(Sub32(Mul32(a.y, b.z), Mul32(a.z, b.y)),
               Sub32(Mul32(a.z, b.x), Mul32(a.x, b.z)),
               Sub32(Mul32(a.x, b.y), Mul32(a.y, b.x)))
          : a \in {a_}, b \in {b_}})

\* (sin(elev) cos(az), cos(elev), sin(elev) sin(az)) times radius, with
\* the elevation clamped.
OnSphere(radius_, elevation, azimuth) ==
    Only({vec3(Mul32(Mul32(radius, AsF32(Sin(elev_clamped))), AsF32(Cos(az))),
               Mul32(radius, AsF32(Cos(elev_clamped))),
               Mul32(Mul32(radius, AsF32(Sin(elev_clamped))), AsF32(Sin(az))))
          : radius \in {radius_},
            elev_clamped \in {Clamp(elevation, Lit(1, -2), Sub32(PI, Lit(1, -2)))},
            az \in {azimuth}})

CameraModes == {"FreeOrbit", "AutoOrbit", "FrontView", "TopView"}

CameraTypes == {"LockedCam", "FreeCam"}

FreeCamDirections == {"Up", "Down", "Left", "Right"}

\* Camera::new
CameraNew ==
    Only({[mode |-> "FreeOrbit",
           azimuth |-> initial_azimuth,
           elevation |-> initial_elevation,
           radius |-> initial_radius,
           target_radius |-> initial_radius,
           min_radius |-> Lit(2, 0),
           max_radius |-> Lit(500, 0),
           orbit_speed |-> Lit(3, -3),
           zoom_speed |-> Lit(2, 0),
           auto_orbit_speed |-> Lit(5, -2),
           lerp_factor |-> Lit(1, -1),
           dragging |-> FALSE,
           last_x |-> Zero,
           last_y |-> Zero,
           roll |-> Zero,
           camera_type |-> "LockedCam",
           free_position |-> OnSphere(initial_radius, initial_elevation, initial_azimuth),
           move_speed |-> One,
           target_distance |-> initial_radius]
          : initial_radius \in {Lit(15, 0)},
            initial_azimuth \in {Mul32(PI, Lit(25, -2))},
            initial_elevation \in {Mul32(PI, Lit(45, -2))}})

\* Camera::get_position
get_position(cam_) ==
    IF cam_.mode = "FrontView" THEN vec3(Lit(10, 0), One, Lit(10, 0))
    ELSE IF cam_.mode = "TopView" THEN vec3(Zero, Lit(15, 0), Lit(1, -1))
    ELSE IF cam_.camera_type = "FreeCam" THEN cam_.free_position
    ELSE OnSphere(cam_.radius, cam_.elevation, cam_.azimuth)

\* elevation and azimuth set from the unit vector d: acos(d.y) clamped,
\* atan2(d.x, d.z).
Facing(cam_, d_) ==
    Only({[cam_ EXCEPT !.elevation = Clamp(Acos(d.y), Lit(1, -2), Sub32(PI, Lit(1, -2))),
                       !.azimuth = AsF32(Atan2(d.x, d.z))]
          : d \in {d_}})

\* Camera::update
update(cam_, time) ==
    LET orbit(c) == IF c.mode = "AutoOrbit"
                    THEN [c EXCEPT !.azimuth = Mul32(AsF32(time), c.auto_orbit_speed),
                                   !.elevation = Add32(Mul32(PI, Lit(3, -1)),
                                                       Mul32(AsF32(Sin(Mul(time, Lit(5, -2)))),
                                                             Lit(3, -1)))]
                    ELSE c
    IN  IF cam_.camera_type = "LockedCam"
        THEN orbit([cam_ EXCEPT !.radius =
                        Add32(@, Mul32(Sub32(cam_.target_radius, @), cam_.lerp_factor))])
        ELSE Only({Only({IF c.mode = "AutoOrbit"
                         THEN [c EXCEPT !.free_position =
                                   OnSphere(c.target_distance, c.elevation, c.azimuth)]
                         ELSE c
                         : c \in {orbit(IF Gt(current_distance, Lit(1, -3))
                                        THEN [cam_ EXCEPT !.free_position =
                                                 VScale(VDiv(@, current_distance),
                                                        Add32(current_distance,
                                                              Mul32(Sub32(cam_.target_distance,
                                                                          current_distance),
                                                                    cam_.lerp_factor)))]
                                        ELSE cam_)}})
                   : current_distance \in {length(cam_.free_position)}})

\* Camera::process_scroll
process_scroll(cam_, yoffset) ==
    IF cam_.camera_type = "FreeCam"
    THEN [cam_ EXCEPT !.target_distance =
             Clamp(Sub32(@, Mul32(AsF32(yoffset), cam_.zoom_speed)),
                   cam_.min_radius, cam_.max_radius)]
    ELSE [cam_ EXCEPT !.target_radius =
             Clamp(Sub32(@, Mul32(AsF32(yoffset), cam_.zoom_speed)),
                   cam_.min_radius, cam_.max_radius)]

\* Camera::set_mode
set_mode(cam_, mode) ==
    Only({[c EXCEPT !.mode = mode]
          : c \in {IF cam_.camera_type # "FreeCam" THEN cam_
                   ELSE IF mode \in {"FrontView", "TopView"}
                   THEN Only({Facing([cam_ EXCEPT !.free_position = pos],
                                     normalize(VNeg(pos)))
                              : pos \in {IF mode = "FrontView"
                                         THEN vec3(Lit(10, 0), One, Lit(10, 0))
                                         ELSE vec3(Zero, Lit(15, 0), Lit(1, -1))}})
                   ELSE IF mode = "FreeOrbit" /\ cam_.mode = "AutoOrbit"
                   THEN Only({[Facing(cam_, normalize(VNeg(pos)))
                                  EXCEPT !.free_position = pos,
                                         !.target_distance = length(pos)]
                              : pos \in {get_position(cam_)}})
                   ELSE cam_}})

\* move_freecam without the test of the camera type.
move_freecam_AnyType(cam_, direction) ==
    Only({Only({[c EXCEPT !.free_position =
                     VAdd(@, VScale(IF direction = "Up" THEN VNeg(up)
                                    ELSE IF direction = "Down" THEN up
                                    ELSE IF direction = "Left" THEN VNeg(right)
                                    ELSE right,
                                    c.move_speed))]
                : up \in {cross(right, forward)}})
          : c \in {IF cam_.mode = "AutoOrbit" THEN [cam_ EXCEPT !.mode = "FreeOrbit"]
                   ELSE cam_},
            forward \in {normalize(OnSphere(One, cam_.elevation, cam_.azimuth))},
            right \in {normalize(cross(normalize(OnSphere(One, cam_.elevation, cam_.azimuth)),
                                       vec3(Zero, One, Zero)))}})

\* Camera::move_freecam
move_freecam(cam_, direction) ==
    IF cam_.camera_type # "FreeCam" THEN cam_
    ELSE move_freecam_AnyType(cam_, direction)

\* Camera::toggle_camera_type
toggle_camera_type(cam_) ==
    IF cam_.camera_type = "LockedCam"
    THEN Only({[Facing(cam_, normalize(VNeg(current_pos)))
                   EXCEPT !.free_position = current_pos,
                          !.target_distance = length(current_pos),
                          !.camera_type = "FreeCam"]
               : current_pos \in {get_position(cam_)}})
    ELSE Only({Only({[(IF Gt(current_dist, Lit(1, -3))
                       THEN Facing(cam_, VDiv(pos, current_dist))
                       ELSE cam_)
                         EXCEPT !.radius = current_dist,
                                !.target_radius = cam_.target_distance,
                                !.mode = IF cam_.mode \in {"FrontView", "TopView"}
                                         THEN "FreeOrbit" ELSE cam_.mode,
                                !.camera_type = "LockedCam"]
                     : current_dist \in {length(pos)}})
               : pos \in {IF cam_.mode \in {"FrontView", "TopView"}
                          THEN get_position(cam_) ELSE cam_.free_position}})

\* The rotation both mouse handlers end with: azimuth += dx * speed,
\* elevation -= dy * speed, the elevation clamped; dx, dy are f32 casts of
\* the f64 differences to the last cursor position.
Rotated(cam_, x, y, speed) ==
    Only({[cam_ EXCEPT !.azimuth = Add32(@, Mul32(dx, speed)),
                       !.elevation = Clamp(Sub32(@, Mul32(dy, speed)),
                                           Lit(1, -2), Sub32(PI, Lit(1, -2)))]
          : dx \in {AsF32(Sub(x, cam_.last_x))}, dy \in {AsF32(Sub(y, cam_.last_y))}})

\* Camera::process_mouse_move
process_mouse_move(cam_, x, y) ==
    Only({[c EXCEPT !.last_x = x, !.last_y = y]
          : c \in {IF ~cam_.dragging THEN cam_
                   ELSE IF cam_.camera_type = "FreeCam" /\ cam_.mode = "AutoOrbit"
                   THEN [Facing(cam_, normalize(VNeg(cam_.free_position)))
                            EXCEPT !.mode = "FreeOrbit"]
                   ELSE IF cam_.camera_type = "FreeCam"
                   THEN Rotated(cam_, x, y, cam_.orbit_speed)
                   ELSE IF cam_.mode \in {"FreeOrbit", "AutoOrbit"}
                   THEN Rotated([cam_ EXCEPT !.mode = "FreeOrbit"], x, y, cam_.orbit_speed)
                   ELSE cam_}})

\* Camera::passive_mouse_move
passive_mouse_move(cam_, x, y) ==
    Only({[c EXCEPT !.last_x = x, !.last_y = y]
          : c \in {IF cam_.mode = "AutoOrbit" /\ cam_.camera_type = "FreeCam"
                   THEN [Facing(cam_, normalize(VNeg(cam_.free_position)))
                            EXCEPT !.mode = "FreeOrbit"]
                   ELSE Rotated(IF cam_.mode = "AutoOrbit"
                                THEN [cam_ EXCEPT !.mode = "FreeOrbit"] ELSE cam_,
                                x, y, Lit(1, -3))}})

\* Camera::adjust_roll
adjust_roll(cam_, delta) == [cam_ EXCEPT !.roll = Add32(@, delta)]

\* Camera::reset_roll
reset_roll(cam_) == [cam_ EXCEPT !.roll = Zero]

---------------------------------------------------------------------------
(* The host loop of main: events, then one tick, then the drawing.         *)

\* Bounds of the exploration.
SpawnCount == 3

MaxEvents == 1

MaxBatches == 2

MaxFrames == 5

\* The masses a black hole is constructed with; main passes 8.54e36.
Masses == {Lit(854, 34), Lit(7265, 34), Lit(727, 35), Zero, Lit(-854, 34)}

\* The step sizes of a tick; main passes 1.0.
DLams == {One, Lit(300, 0), Lit(600, 0)}

Keys == {"Space", "Escape", "Other"}

KeySeqs == UNION {[1..n -> Keys] : n \in 0..MaxEvents}

VARIABLES
    pc,            \* where the loop of main stands: "events", "tick", "draw", "closed"
    sag_a,         \* the black hole
    dlam,          \* the step size handed to Ray::step
    rays,          \* Vec<Ray>
    should_close,  \* window.should_close()
    ident,         \* history: ident[i] names the ray rays[i]
    next_id,       \* history: the number of rays constructed so far
    born,          \* history: born[i] is the frame rays[i] was spawned in
    retired,       \* history: <<name, why, age, ray>> of every ray a tick has
                   \* removed: the ticks it was stepped in and the ray as left
    frame,         \* the number of frames begun
    cam,           \* App.camera of the 3-D renderer
    time,          \* glfw.get_time() as last read by App::run
    calls,         \* history: the number of camera calls made
    last_call,     \* history: the last camera call made
    events,        \* the events of the frame that process_input has yet to see
    passive_tracking   \* App.passive_tracking

vars == <<pc, sag_a, dlam, rays, should_close, ident, next_id, born, retired, frame,
          cam, time, calls, last_call, events, passive_tracking>>

camvars == <<cam, time, calls, last_call, events, passive_tracking>>

simvars == <<pc, sag_a, dlam, rays, should_close, ident, next_id, born, retired, frame>>

engine == EngineNew

\* SpawnRay that divides the index by spawn_count.
SpawnRay_DividesByCount(i, rs) ==
    LET spawn_x == AsF32(Mul(Neg(engine.world_width), Lit(9, -1)))
        speed == AsF32(C)
        t == AsF32(Div(Lit(i, 0), Lit(SpawnCount, 0)))
        y == AsF32(Add(AsF32(Mul(Neg(engine.world_height), Lit(8, -1))),
                       AsF32(Mul(t, AsF32(Mul(engine.world_height, Lit(16, -1)))))))
    IN  Only({RayNew(pos, dir, rs) : pos \in {vec2(spawn_x, y)}, dir \in {vec2(speed, Zero)}})

\* The i-th ray (from 0) of the batch the Space key spawns.
SpawnRay(i, rs) ==
    LET spawn_x == AsF32(Mul(Neg(engine.world_width), Lit(9, -1)))
        speed == AsF32(C)
        t == AsF32(Div(Lit(i, 0), Lit(SpawnCount - 1, 0)))
        y == AsF32(Add(AsF32(Mul(Neg(engine.world_height), Lit(8, -1))),
                       AsF32(Mul(t, AsF32(Mul(engine.world_height, Lit(16, -1)))))))
    IN  Only({RayNew(pos, dir, rs) : pos \in {vec2(spawn_x, y)}, dir \in {vec2(speed, Zero)}})

\* SpawnBatch whose loop stops one ray short.
SpawnBatch_OneShort(rs) == [i \in 1..(SpawnCount - 1) |-> SpawnRay(i - 1, rs)]

\* The rays pushed by one press of Space, in order.
SpawnBatch(rs) == [i \in 1..SpawnCount |-> SpawnRay(i - 1, rs)]

\* The event loop of one frame over the keys pressed.
RECURSIVE HandleKeys(_, _, _)
HandleKeys(keys, rs, st) ==
    IF keys = <<>> THEN st
    ELSE LET key == Head(keys)
             nxt == IF key = "Space"
                    THEN [st EXCEPT !.rays = @ \o SpawnBatch(rs)]
                    ELSE IF key = "Escape"
                    THEN [st EXCEPT !.should_close = TRUE]
                    ELSE st
         IN  HandleKeys(Tail(keys), rs, nxt)

NumSpace(keys) == Cardinality({i \in 1..Len(keys) : keys[i] = "Space"})

Init ==
    /\ pc = "events"
    /\ \E mass \in Masses : sag_a = BlackHoleNew(mass)
    /\ dlam \in DLams
    /\ rays = <<>>
    /\ should_close = FALSE
    /\ ident = <<>>
    /\ next_id = 0
    /\ born = <<>>
    /\ retired = {}
    /\ frame = 0
    /\ cam = CameraNew
    /\ time = Zero
    /\ calls = 0
    /\ last_call = "new"
    /\ events = <<>>
    /\ passive_tracking = FALSE

\* PollEvents of a loop that draws before it steps the rays.
PollEvents_DrawsFirst(keys) ==
    /\ pc = "events"
    /\ frame < MaxFrames
    /\ next_id + SpawnCount * NumSpace(keys) <= SpawnCount * MaxBatches
    /\ \E st \in {HandleKeys(keys, sag_a.r_s, [rays |-> rays, should_close |-> should_close])} :
           /\ rays' = st.rays
           /\ should_close' = st.should_close
           /\ ident' = ident \o [i \in 1..(Len(st.rays) - Len(rays)) |-> next_id + i]
           /\ next_id' = next_id + (Len(st.rays) - Len(rays))
           /\ born' = born \o [i \in 1..(Len(st.rays) - Len(rays)) |-> frame + 1]
    /\ frame' = frame + 1
    /\ pc' = "draw"
    /\ UNCHANGED <<sag_a, dlam, retired>>
    /\ UNCHANGED camvars

PollEvents(keys) ==
    /\ pc = "events"
    /\ frame < MaxFrames
    /\ next_id + SpawnCount * NumSpace(keys) <= SpawnCount * MaxBatches
    /\ \E st \in {HandleKeys(keys, sag_a.r_s, [rays |-> rays, should_close |-> should_close])} :
           /\ rays' = st.rays
           /\ should_close' = st.should_close
           /\ ident' = ident \o [i \in 1..(Len(st.rays) - Len(rays)) |-> next_id + i]
           /\ next_id' = next_id + (Len(st.rays) - Len(rays))
           /\ born' = born \o [i \in 1..(Len(st.rays) - Len(rays)) |-> frame + 1]
    /\ frame' = frame + 1
    /\ pc' = "tick"
    /\ UNCHANGED <<sag_a, dlam, retired>>
    /\ UNCHANGED camvars

\* StepEach that, after a ray whose step returned false, passes over the
\* next ray without stepping it.
RECURSIVE StepEach_SkipsAfterRemoval(_, _, _)
StepEach_SkipsAfterRemoval(rs_, d, rs) ==
    IF rs_ = <<>> THEN <<>>
    ELSE Only({IF res.keep \/ Len(rs_) = 1
               THEN <<res>> \o StepEach_SkipsAfterRemoval(Tail(rs_), d, rs)
               ELSE <<res, [ray |-> rs_[2], keep |-> TRUE]>>
                    \o StepEach_SkipsAfterRemoval(Tail(Tail(rs_)), d, rs)
               : res \in {step(Head(rs_), d, rs)}})

\* StepEach that steps the first ray only and keeps the others as they are.
StepEach_FirstOnly(rs_, d, rs) ==
    IF rs_ = <<>> THEN <<>>
    ELSE <<step(Head(rs_), d, rs)>>
         \o [i \in 1..(Len(rs_) - 1) |-> [ray |-> rs_[i + 1], keep |-> TRUE]]

\* ray.step(d, rs) for every ray of rs_, in order: the ray as it is left
\* and the value returned.
RECURSIVE StepEach(_, _, _)
StepEach(rs_, d, rs) ==
    IF rs_ = <<>> THEN <<>>
    ELSE <<step(Head(rs_), d, rs)>> \o StepEach(Tail(rs_), d, rs)

\* Retain that fills the place of a removed ray with the last ray of the
\* vector (swap_remove): the rays kept come out in the reverse order.
Retain_SwapRemove(rs_, d, rs) ==
    Only({LET fwd == SelectSeq([i \in 1..Len(stepped) |-> i], LAMBDA i : stepped[i].keep)
              kept == IF Len(fwd) = Len(stepped) THEN fwd
                      ELSE [j \in 1..Len(fwd) |-> fwd[Len(fwd) + 1 - j]]
          IN  [rays |-> [j \in 1..Len(kept) |-> stepped[kept[j]].ray], kept |-> kept,
               left |-> [i \in 1..Len(stepped) |-> stepped[i].ray]]
          : stepped \in {StepEach(rs_, d, rs)}})

\* rays.retain_mut(|ray| ray.step(d, rs)): the rays kept, as they are left,
\* the positions they had, and every ray as the closure left it.
Retain(rs_, d, rs) ==
    Only({LET kept == SelectSeq([i \in 1..Len(stepped) |-> i], LAMBDA i : stepped[i].keep)
          IN  [rays |-> [j \in 1..Len(kept) |-> stepped[kept[j]].ray], kept |-> kept,
               left |-> [i \in 1..Len(stepped) |-> stepped[i].ray]]
          : stepped \in {StepEach(rs_, d, rs)}})

\* Why a tick removes a ray: the first return of Ray::step or the second.
Fate(ray, rs) == IF Le(ray.r, rs) THEN "Captured" ELSE "Escaped"

Tick ==
    /\ pc = "tick"
    /\ \E res \in {Retain(rays, dlam, sag_a.r_s)} :
           /\ rays' = res.rays
           /\ ident' = [j \in 1..Len(res.kept) |-> ident[res.kept[j]]]
           /\ born' = [j \in 1..Len(res.kept) |-> born[res.kept[j]]]
           /\ retired' = retired \cup
                  {<<ident[i], Fate(rays[i], sag_a.r_s), frame - born[i] + 1, res.left[i]>> :
                       i \in (1..Len(rays)) \ {res.kept[j] : j \in 1..Len(res.kept)}}
    /\ pc' = "draw"
    /\ UNCHANGED <<sag_a, dlam, should_close, next_id, frame>>
    /\ UNCHANGED camvars

\* A draw that consumes the oldest point of every trail it strokes.
Draw_ConsumesTrail ==
    /\ pc = "draw"
    /\ pc' = IF should_close THEN "closed" ELSE "events"
    /\ rays' = [i \in 1..Len(rays) |->
                    IF Len(rays[i].trail) >= 2
                    THEN [rays[i] EXCEPT !.trail = Tail(@)]
                    ELSE rays[i]]
    /\ UNCHANGED <<sag_a, dlam, should_close, ident, next_id, born, retired, frame>>
    /\ UNCHANGED camvars

\* sag_a.draw(); Ray::draw(&rays); then the test of the while loop
Draw ==
    /\ pc = "draw"
    /\ pc' = IF should_close THEN "closed" ELSE "events"
    /\ UNCHANGED <<sag_a, dlam, rays, should_close, ident, next_id, born, retired, frame>>
    /\ UNCHANGED camvars

Next ==
    \/ \E keys \in KeySeqs : PollEvents(keys)
    \/ Tick
    \/ Draw

Spec == Init /\ [][Next]_vars

---------------------------------------------------------------------------
(* The loop of App::run as far as the camera goes: update at the start of   *)
(* a frame, then process_input for every event of the frame.               *)

\* Bound of the exploration: the camera calls of a run.
MaxCalls == 4

\* The seconds between two readings of the clock.
TimeSteps == {Lit(10, 0)}

\* The yoffset of a scroll event.
Scrolls == {Lit(-1, 0), Lit(1, 0), Lit(10, 0)}

KeyActions == {"Press", "Repeat", "Release"}

CamInit ==
    /\ cam = CameraNew
    /\ time = Zero
    /\ calls = 0
    /\ last_call = "new"
    /\ events = <<>>
    /\ passive_tracking = FALSE
    /\ pc = "camera"
    /\ sag_a = BlackHoleNew(Lit(854, 34))
    /\ dlam = One
    /\ rays = <<>>
    /\ should_close = FALSE
    /\ ident = <<>>
    /\ next_id = 0
    /\ born = <<>>
    /\ retired = {}
    /\ frame = 0

\* What every camera call does to the history.
Called(name) ==
    /\ calls < MaxCalls
    /\ calls' = calls + 1
    /\ last_call' = name
    /\ UNCHANGED simvars
    /\ UNCHANGED <<events, passive_tracking>>

\* App::run: current_time = get_time(); camera.update(current_time)
CamUpdate ==
    /\ Called("update")
    /\ \E dt \in TimeSteps :
           /\ time' = Add(time, dt)
           /\ cam' = update(cam, Add(time, dt))

\* process_input, Key::Up, Down, Left, Right
KeyArrow(direction, action) ==
    /\ Called(direction)
    /\ cam' = IF action \in {"Press", "Repeat"} THEN move_freecam(cam, direction) ELSE cam
    /\ UNCHANGED time

\* process_input, Key::C
KeyC ==
    /\ Called("toggle_camera_type")
    /\ cam' = toggle_camera_type(cam)
    /\ UNCHANGED time

\* process_input, Key::Num1 .. Num4
KeyNum(mode) ==
    /\ Called("set_mode")
    /\ cam' = set_mode(cam, mode)
    /\ UNCHANGED time

\* process_input, Scroll
Scroll(yoffset) ==
    /\ Called("process_scroll")
    /\ cam' = process_scroll(cam, yoffset)
    /\ UNCHANGED time

CamNext ==
    \/ CamUpdate
    \/ \E direction \in FreeCamDirections, action \in KeyActions : KeyArrow(direction, action)
    \/ KeyC
    \/ \E mode \in CameraModes : KeyNum(mode)
    \/ \E yoffset \in Scrolls : Scroll(yoffset)

CamSpec == CamInit /\ [][CamNext]_vars

---------------------------------------------------------------------------
(* One frame of App::run with the events that arrive in it: update, then   *)
(* process_input for every event in the order of arrival, then the update  *)
(* of the frames that follow.                                              *)

\* Bound of the exploration: the frames begun.
MaxUpdates == 2

HEIGHT == Lit(1080, 0)

Key(key, action) ==
    [type |-> "Key", key |-> key, action |-> action, x |-> Zero, y |-> Zero]

\* A press or release of Button1; x, y is what get_cursor_pos returns when
\* the event is processed.
MouseButton(action, x, y) ==
    [type |-> "MouseButton", key |-> "Button1", action |-> action, x |-> x, y |-> y]

CursorPos(x, y) == [type |-> "CursorPos", key |-> "", action |-> "", x |-> x, y |-> y]

ScrollBy(yoffset) ==
    [type |-> "Scroll", key |-> "", action |-> "", x |-> Zero, y |-> yoffset]

\* A key held down: Press, then Repeat, count events in all, then Release.
Held(key, count) ==
    [i \in 1..count |-> Key(key, IF i = 1 THEN "Press" ELSE "Repeat")]
        \o <<Key(key, "Release")>>

\* A session at the free camera: the front view taken, the view turned by
\* the dragged mouse to look along x and the camera flown along its up and
\* right axes, the view turned to look along z and the camera flown again,
\* then auto orbit and free orbit.
Session ==
    << <<Key("C", "Press")>>,
       <<Key("T", "Press")>>,
       <<ScrollBy(Lit(10, 0))>>,
       <<Key("Num3", "Press")>>,
       <<MouseButton("Press", Zero, Zero)>>,
       <<CursorPos(Lit(1309, 0), Lit(2353, -2))>>,
       Held("Up", 1),
       Held("Right", 10),
       <<CursorPos(Lit(1285, 0), Lit(2353, -2)), CursorPos(Lit(7854, -1), Lit(2353, -2))>>,
       Held("Left", 10),
       <<MouseButton("Release", Lit(7854, -1), Lit(2353, -2))>>,
       <<Key("Num2", "Press")>>,
       <<Key("Num1", "Press")>> >>

\* A session of keys alone: the free camera flown upwards for 520 events.
Flight ==
    <<Key("C", "Press")>> \o Held("Up", 520)
        \o <<Key("Num2", "Press"), Key("Num1", "Press")>>

RECURSIVE Gestures(_, _)
\* The gestures of session numbered in made, one after the other.
Gestures(session, made) ==
    IF session = <<>> THEN <<>>
    ELSE (IF Len(session) \in made THEN Gestures(SubSeq(session, 1, Len(session) - 1), made)
                                        \o session[Len(session)]
          ELSE Gestures(SubSeq(session, 1, Len(session) - 1), made))

\* The events of the first frame: the gestures of the session, each one made
\* or left out, or the flight.
Batches == {Gestures(Session, made) : made \in SUBSET (1..Len(Session))} \cup {Flight}

\* App::process_input, as far as the camera and passive_tracking go.
process_input(camera, tracking, event) ==
    LET cam_is(c) == [camera |-> c, passive_tracking |-> tracking]
        pressed(key) == event.type = "Key" /\ event.key = key /\ event.action = "Press"
        arrow == event.type = "Key" /\ event.key \in FreeCamDirections
    IN  IF pressed("T") THEN [camera |-> camera, passive_tracking |-> ~tracking]
        ELSE IF pressed("Num1") THEN cam_is(set_mode(camera, "FreeOrbit"))
        ELSE IF pressed("Num2") THEN cam_is(set_mode(camera, "AutoOrbit"))
        ELSE IF pressed("Num3") THEN cam_is(set_mode(camera, "FrontView"))
        ELSE IF pressed("Num4") THEN cam_is(set_mode(camera, "TopView"))
        ELSE IF pressed("Q") THEN cam_is(adjust_roll(camera, Lit(-1, -1)))
        ELSE IF pressed("E") THEN cam_is(adjust_roll(camera, Lit(1, -1)))
        ELSE IF pressed("R") THEN cam_is(reset_roll(camera))
        ELSE IF pressed("C") THEN cam_is(toggle_camera_type(camera))
        ELSE IF arrow
        THEN cam_is(IF event.action \in {"Press", "Repeat"}
                    THEN move_freecam(camera, event.key) ELSE camera)
        ELSE IF event.type = "MouseButton" /\ event.action = "Press"
        THEN (IF /\ Le(Lit(20, 0), event.x) /\ Le(event.x, Lit(84, 0))
                 /\ Le(Lit(20, 0), Sub(HEIGHT, event.y))
                 /\ Le(Sub(HEIGHT, event.y), Lit(84, 0))
              THEN cam_is(camera)
              ELSE cam_is([camera EXCEPT !.dragging = TRUE,
                                         !.last_x = event.x, !.last_y = event.y]))
        ELSE IF event.type = "MouseButton" /\ event.action = "Release"
        THEN cam_is([camera EXCEPT !.dragging = FALSE])
        ELSE IF event.type = "CursorPos"
        THEN cam_is(IF tracking THEN passive_mouse_move(camera, event.x, event.y)
                    ELSE process_mouse_move(camera, event.x, event.y))
        ELSE IF event.type = "Scroll" THEN cam_is(process_scroll(camera, event.y))
        ELSE cam_is(camera)

AppInit ==
    /\ cam = CameraNew
    /\ time = Zero
    /\ calls = 0
    /\ last_call = "new"
    /\ events \in Batches
    /\ passive_tracking = FALSE
    /\ pc = "update"
    /\ sag_a = BlackHoleNew(Lit(854, 34))
    /\ dlam = One
    /\ rays = <<>>
    /\ should_close = FALSE
    /\ ident = <<>>
    /\ next_id = 0
    /\ born = <<>>
    /\ retired = {}
    /\ frame = 0

\* App::run: current_time = get_time(); camera.update(current_time)
Update ==
    /\ pc = "update"
    /\ frame < MaxUpdates
    /\ frame' = frame + 1
    /\ \E dt \in TimeSteps :
           /\ time' = Add(time, dt)
           /\ cam' = update(cam, Add(time, dt))
    /\ pc' = IF events = <<>> THEN "update" ELSE "input"
    /\ last_call' = "update"
    /\ UNCHANGED <<sag_a, dlam, rays, should_close, ident, next_id, born, retired>>
    /\ UNCHANGED <<calls, events, passive_tracking>>

\* App::run: self.process_input(event), for the next event of the frame
ProcessInput ==
    /\ pc = "input"
    /\ events # <<>>
    /\ \E app \in {process_input(cam, passive_tracking, Head(events))} :
           /\ cam' = app.camera
           /\ passive_tracking' = app.passive_tracking
    /\ events' = Tail(events)
    /\ pc' = IF Tail(events) = <<>> THEN "update" ELSE "input"
    /\ last_call' = Head(events).type
    /\ UNCHANGED <<sag_a, dlam, rays, should_close, ident, next_id, born, retired, frame>>
    /\ UNCHANGED <<calls, time>>

AppNext ==
    \/ Update
    \/ ProcessInput

AppSpec == AppInit /\ [][AppNext]_vars

---------------------------------------------------------------------------
(* The claims.                                                             *)

Ids == {ident[i] : i \in 1..Len(ident)}

ValidMass == Gt(sag_a.mass, Zero)

\* The point a ray was spawned at is no longer the first of its trail.
FirstPointEvicted(i) ==
    \A k \in 0..(SpawnCount - 1) : rays[i].trail[1] # SpawnRay(k, sag_a.r_s).trail[1]

\* C1, as stated: every ray the renderer reads after a tick has r > rs.
C1_DrawnOutsideHorizon ==
    (pc = "draw" /\ ValidMass) => \A i \in 1..Len(rays) : Gt(rays[i].r, sag_a.r_s)

\* C2: the trail of every ray is never longer than the trail capacity.
C2_TrailBounded == \A i \in 1..Len(rays) : Len(rays[i].trail) <= TrailCap

\* A trail at capacity that has lost its first point, read by the renderer.
C2_Witness ==
    /\ pc = "draw"
    /\ ValidMass
    /\ \E i \in 1..Len(rays) : Len(rays[i].trail) = TrailCap /\ FirstPointEvicted(i)

\* C3: any two consecutive points of a trail are farther apart than the
\* decimation threshold.
C3_TrailSpacing ==
    \A i \in 1..Len(rays) : \A n \in 1..(Len(rays[i].trail) - 1) :
        Gt(Distance(rays[i].trail[n + 1], rays[i].trail[n]), TrailSpacing)

\* A ray that a tick left where it was (no point added) beside one whose
\* trail has lost its first point.
C3_Witness ==
    /\ pc = "draw"
    /\ ValidMass
    /\ \E i \in 1..Len(rays) : Len(rays[i].trail) = TrailCap /\ FirstPointEvicted(i)
    /\ \E i \in 1..Len(rays) : Len(rays[i].trail) < frame /\ Len(rays[i].trail) < TrailCap

\* The ray named id as Ray::new made it.
AsConstructed(id) == SpawnRay((id - 1) % SpawnCount, sag_a.r_s)

\* The batch (from 0) that the ray named id was spawned in.
BatchOf(id) == (id - 1) \div SpawnCount

\* C4: a ray that is at or below rs when a tick begins is Captured: it is
\* removed from the ray set in that tick, and no ray a tick has removed as
\* Captured is in the ray set again, whatever spawns and ticks follow.
C4_CapturedRemovedForGood ==
    /\ [](\A p \in retired : p[2] = "Captured" => p[1] \notin Ids)
    /\ [][pc = "tick" =>
             \A i \in 1..Len(rays) :
                 Le(rays[i].r, sag_a.r_s) =>
                     /\ \A j \in 1..Len(ident') : ident'[j] # ident[i]
                     /\ \E p \in retired' : p[1] = ident[i] /\ p[2] = "Captured"
         ]_vars

\* A ray was captured, a later batch was spawned and stepped.
C4_Witness ==
    /\ pc = "draw"
    /\ ValidMass
    /\ \E p \in retired :
          p[2] = "Captured" /\ \E j \in 1..Len(ident) : BatchOf(ident[j]) > BatchOf(p[1])

\* C5: a ray whose radius after the integration step of a tick exceeds
\* max_distance is removed from the ray set in that tick, before the
\* renderer reads the set, and no ray removed as Escaped is in the ray set
\* again.
C5_EscapedRemovedForGood ==
    /\ [](\A p \in retired : p[2] = "Escaped" => p[1] \notin Ids)
    /\ [][pc = "tick" =>
             \A i \in 1..Len(rays) :
                 (~Le(rays[i].r, sag_a.r_s)
                     /\ Gt(rk4_step(rays[i], dlam, sag_a.r_s).r, max_distance)) =>
                     /\ \A j \in 1..Len(ident') : ident'[j] # ident[i]
                     /\ \E p \in retired' : p[1] = ident[i] /\ p[2] = "Escaped"
         ]_vars

\* A ray escaped, a later batch was spawned and stepped.
C5_Witness ==
    /\ pc = "draw"
    /\ ValidMass
    /\ \E p \in retired :
          p[2] = "Escaped" /\ \E j \in 1..Len(ident) : BatchOf(ident[j]) > BatchOf(p[1])

\* C6: e and l of every ray that a tick has left in the set are those
\* Ray::new computed for it; one RK4 step changes nothing of a ray but r,
\* phi, dr and dphi, and Ray::step nothing but these, x, y and the trail.
C6_MotionConstantsFixed ==
    \A i \in 1..Len(rays) :
        /\ pc = "draw" =>
              \A made \in {AsConstructed(ident[i])} :
                  rays[i].e = made.e /\ rays[i].l = made.l
        /\ pc = "tick" =>
              /\ \A s \in {rk4_step(rays[i], dlam, sag_a.r_s)} :
                     [s EXCEPT !.r = rays[i].r, !.phi = rays[i].phi,
                               !.dr = rays[i].dr, !.dphi = rays[i].dphi] = rays[i]
              /\ \A res \in {step(rays[i], dlam, sag_a.r_s)} :
                     [res.ray EXCEPT !.r = rays[i].r, !.phi = rays[i].phi,
                                     !.dr = rays[i].dr, !.dphi = rays[i].dphi,
                                     !.x = rays[i].x, !.y = rays[i].y,
                                     !.trail = rays[i].trail] = rays[i]

\* A ray that ticks have moved, turned and accelerated.
C6_Witness ==
    /\ pc = "draw"
    /\ ValidMass
    /\ \E i \in 1..Len(rays) :
          /\ Len(rays[i].trail) >= 3
          /\ IsNum(rays[i].dr)
          /\ rays[i].r # AsConstructed(ident[i]).r
          /\ rays[i].dr # AsConstructed(ident[i]).dr
          /\ rays[i].dphi # AsConstructed(ident[i]).dphi

\* f = 1 - rs / r of Ray::new
LapseOf(ray) == Sub(One, Div(sag_a.r_s, ray.r))

\* C7, as stated: no ray is added to the ray set whose initial point has
\* f = 1 - rs/r <= 0.
C7_NoRayFromBelowHorizon ==
    [][ValidMass =>
          \A j \in (Len(rays) + 1)..Len(rays') : Gt(LapseOf(rays'[j]), Zero)]_vars

\* The rays of one batch whose initial point is outside the horizon.
ValidBatch == SelectSeq(SpawnBatch(sag_a.r_s), LAMBDA ray : Gt(LapseOf(ray), Zero))

RECURSIVE Repeat(_, _)
Repeat(seq, k) == IF k = 0 THEN <<>> ELSE seq \o Repeat(seq, k - 1)

\* C8, as stated: the event loop of a frame adds, for every batch, the rays
\* of the batch whose initial point is outside the horizon and no other.
C8_BatchSkipsBelowHorizon ==
    [][(pc = "events" /\ ValidMass) =>
          \E k \in 0..MaxEvents :
              SubSeq(rays', Len(rays) + 1, Len(rays')) = Repeat(ValidBatch, k)]_vars

\* C9, as stated: no black hole exists whose mass is not positive, and
\* none whose Schwarzschild radius is not positive.
C9_MassPositive == Gt(sag_a.mass, Zero) /\ Gt(sag_a.r_s, Zero)

\* C10, as stated: a ray whose r is at or below rs, or is not a finite
\* number, when a tick begins is not in the ray set after that tick.
C10_OutOfDomainRemoved ==
    [][(pc = "tick" /\ ValidMass) =>
          \A i \in 1..Len(rays) :
              (Le(rays[i].r, sag_a.r_s) \/ ~IsNum(rays[i].r)) =>
                  \A j \in 1..Len(ident') : ident'[j] # ident[i]]_vars

\* C11: the renderer reads the rays only right after an integration pass,
\* and a frame has one pass: the events of a frame are followed by the
\* pass, the pass by the drawing, and the drawing changes no ray and begins
\* no frame.  The pass is complete: every ray of the set before the pass
\* has had Ray::step called on it exactly once, is in the set after the pass
\* as that call left it when the call returned true, and is not in the set
\* when it returned false.
C11_OnePassBeforeDraw ==
    [][/\ pc' = "draw" => pc = "tick"
       /\ pc = "events" => pc' = "tick" /\ frame' = frame + 1
       /\ pc = "draw" => rays' = rays /\ frame' = frame /\ pc' \in {"events", "closed"}
       /\ pc = "tick" =>
             /\ pc' = "draw" /\ frame' = frame
             /\ Len(rays') <= Len(rays)
             /\ \A j \in 1..Len(ident') : ident'[j] \in Ids
             /\ \A i \in 1..Len(rays) :
                    \E res \in {step(rays[i], dlam, sag_a.r_s)} :
                        IF res.keep
                        THEN \E j \in 1..Len(rays') :
                                 ident'[j] = ident[i] /\ rays'[j] = res.ray
                        ELSE \A j \in 1..Len(ident') : ident'[j] # ident[i]
      ]_vars

\* The renderer reads a set with rays of two batches, of which a pass has
\* removed some.
C11_Witness ==
    /\ pc = "draw"
    /\ ValidMass
    /\ retired # {}
    /\ \E i, j \in 1..Len(ident) : BatchOf(ident[i]) # BatchOf(ident[j])

\* Two rays that Ray::new was given the same position, direction and rs: the
\* rays at the same place of their batches.
SameStart(p, q) == (p - 1) % SpawnCount = (q - 1) % SpawnCount

\* The number of ticks that have stepped the ray rays[i].
Age(i) == IF pc = "tick" THEN frame - born[i] ELSE frame - born[i] + 1

\* C13: rays with the same initial state have the same history, whatever
\* batch they came in, whatever rays were in the set with them and whatever
\* rays were removed around them: two that ticks have removed were removed
\* at the same age, for the same reason, in the same final state and with
\* the same trail; two of the same age in the set are equal; and one that is
\* in the set is younger than the age at which the other was removed.
C13_RayIndependence ==
    /\ \A p, q \in retired :
           SameStart(p[1], q[1]) => p[2] = q[2] /\ p[3] = q[3] /\ p[4] = q[4]
    /\ \A i, j \in 1..Len(rays) :
           (SameStart(ident[i], ident[j]) /\ born[i] = born[j]) => rays[i] = rays[j]
    /\ \A p \in retired : \A i \in 1..Len(rays) :
           SameStart(p[1], ident[i]) => Age(i) < p[3]

\* Two rays with the same initial state, of different batches, have been
\* stepped more than once and removed.
C13_Witness ==
    /\ ValidMass
    /\ \E p, q \in retired :
           /\ SameStart(p[1], q[1])
           /\ BatchOf(p[1]) # BatchOf(q[1])
           /\ p[3] > 1


\* C14: drawing the horizon disc and the rays changes nothing of the
\* simulation: every ray (r, phi, dr, dphi, e, l, x, y, trail), the rays
\* present and their order, and the mass and Schwarzschild radius are after
\* the draw what they were before it.
C14_DrawMutatesNothing ==
    [][pc = "draw" =>
          /\ rays' = rays
          /\ ident' = ident
          /\ sag_a' = sag_a
          /\ dlam' = dlam
      ]_vars

\* A frame has been drawn in which a ray had a trail to stroke.
C14_Witness ==
    /\ pc \in {"events", "closed"}
    /\ frame >= 1
    /\ ValidMass
    /\ \E i \in 1..Len(rays) : Len(rays[i].trail) >= 2 /\ Gt(rays[i].r, sag_a.r_s)


\* A ray aimed at the centre with no angular momentum, outside the horizon.
RadialInfall(ray, rs) ==
    /\ IsZero(ray.l)
    /\ IsZero(ray.dphi)
    /\ Lt(ray.dr, Zero)
    /\ Gt(ray.r, rs)

\* C15, as stated: a ray constructed outside the horizon and falling radially
\* (l = 0, dphi = 0, dr < 0) reaches r <= rs after finitely many ticks and is
\* then removed as Captured.  Its r is the measure of that: every tick that
\* keeps such a ray leaves it at a smaller r, so that, the values of r being
\* finitely many, a later tick finds r <= rs; and no tick removes it as
\* Escaped.
C15_RadialRayCaptured ==
    [][(pc = "tick" /\ ValidMass) =>
          \A i \in 1..Len(rays) :
              RadialInfall(AsConstructed(ident[i]), sag_a.r_s) =>
                  /\ \A j \in 1..Len(ident') :
                         ident'[j] = ident[i] => Lt(rays'[j].r, rays[i].r)
                  /\ \A p \in retired' : p[1] = ident[i] => p[2] = "Captured"
      ]_vars


\* l and e as Ray::new derives them, from a state (r, dr, dphi).
MotionConstants(r_, dr_, dphi_, rs) ==
    Only({LET l == Mul(Mul(r, r), dphi)
              f == Sub(One, Div(rs, r))
              dt_dlambda == Sqrt(Add(Div(Mul(dr, dr), Mul(f, f)),
                                     Div(Mul(Mul(Mul(r, r), dphi), dphi), f)))
              e == Mul(f, dt_dlambda)
          IN  [e |-> e, l |-> l]
          : r \in {r_}, dr \in {dr_}, dphi \in {dphi_}})

\* |a| of a float
FAbs(a) == IF Lt(a, Zero) THEN Neg(a) ELSE a

\* a is within the fraction tol of b.
Within(a, b, tol) == \E d \in {FAbs(Sub(a, b))} : Le(d, Mul(tol, FAbs(b)))

\* The widest tolerance a reading of "small" could mean: one half of the value.
Tolerance == Lit(5, -1)

\* C16, as stated: of every ray that is alive (constructed outside the horizon,
\* kept by the ticks so far and not at or below rs), l recomputed as
\* r^2 * dphi and e recomputed as f * dt_dlambda from the current r, dr,
\* dphi are within the tolerance of the l and e stored at construction.
C16_ConservedWithinTolerance ==
    (pc = "draw" /\ ValidMass) =>
        \A i \in 1..Len(rays) :
            (Gt(AsConstructed(ident[i]).r, sag_a.r_s) /\ ~Le(rays[i].r, sag_a.r_s)) =>
                \E now \in {MotionConstants(rays[i].r, rays[i].dr, rays[i].dphi, sag_a.r_s)} :
                    /\ Within(now.l, rays[i].l, Tolerance)
                    /\ Within(now.e, rays[i].e, Tolerance)


\* C17: every press of Space appends SpawnCount rays (50 in main) and changes
\* no ray already there.  The rays of a batch are all at x = -0.9 *
\* world_width; the first is at y = -0.8 * world_height, the last at
\* y = +0.8 * world_height, and the y of consecutive rays differ by the same
\* amount; each is the ray Ray::new makes at its position with direction
\* (c, 0) and the r_s of the black hole.
C17_BatchLayout ==
    [][pc = "events" =>
          /\ (Len(rays') - Len(rays)) % SpawnCount = 0
          /\ SubSeq(rays', 1, Len(rays)) = rays
          /\ \A g \in 0..((Len(rays') - Len(rays)) \div SpawnCount - 1) :
                 \E batch \in {SubSeq(rays', Len(rays) + g * SpawnCount + 1,
                                              Len(rays) + (g + 1) * SpawnCount)} :
                     /\ \A k \in 1..SpawnCount :
                            /\ batch[k].x = AsF32(Mul(Neg(engine.world_width), Lit(9, -1)))
                            /\ batch[k] = RayNew(vec2(batch[k].x, batch[k].y),
                                                 vec2(AsF32(C), Zero), sag_a.r_s)
                     /\ batch[1].y = AsF32(Mul(Neg(engine.world_height), Lit(8, -1)))
                     /\ batch[SpawnCount].y = AsF32(Mul(engine.world_height, Lit(8, -1)))
                     /\ \A k \in 1..(SpawnCount - 2) :
                            Sub(batch[k + 1].y, batch[k].y) = Sub(batch[k + 2].y, batch[k + 1].y)
      ]_vars

\* A batch has just been spawned next to rays of an earlier frame.
C17_Witness ==
    /\ pc = "tick"
    /\ ValidMass
    /\ \E i, j \in 1..Len(rays) : born[i] = frame /\ born[j] < frame


\* C18, as stated: r_s is 2 * G * mass / c^2 of the mass the black hole was
\* constructed with and is strictly positive, in every state; no spawn, tick
\* or draw changes the black hole; every ray a spawn adds is constructed
\* with that r_s and every tick steps every ray with it.
C18_RadiusDerivedPositiveFixed ==
    /\ [](/\ sag_a.r_s = Div(Mul(Mul(Two, G), sag_a.mass), Mul(C, C))
          /\ Gt(sag_a.r_s, Zero))
    /\ [][/\ sag_a' = sag_a
          /\ pc = "events" =>
                 \A j \in (Len(rays) + 1)..Len(rays') :
                     rays'[j] = RayNew(vec2(rays'[j].x, rays'[j].y),
                                       vec2(AsF32(C), Zero), sag_a.r_s)
          /\ pc = "tick" =>
                 \A j \in 1..Len(rays') :
                     \E i \in 1..Len(rays) :
                         /\ ident[i] = ident'[j]
                         /\ rays'[j] = step(rays[i], dlam, sag_a.r_s).ray
         ]_vars

\* The parts of C18 that do not depend on the mass being positive.
C18_RadiusDerivedFixed ==
    /\ [](sag_a.r_s = Div(Mul(Mul(Two, G), sag_a.mass), Mul(C, C)))
    /\ [][/\ sag_a' = sag_a
          /\ pc = "events" =>
                 \A j \in (Len(rays) + 1)..Len(rays') :
                     rays'[j] = RayNew(vec2(rays'[j].x, rays'[j].y),
                                       vec2(AsF32(C), Zero), sag_a.r_s)
          /\ pc = "tick" =>
                 \A j \in 1..Len(rays') :
                     \E i \in 1..Len(rays) :
                         /\ ident[i] = ident'[j]
                         /\ rays'[j] = step(rays[i], dlam, sag_a.r_s).ray
         ]_vars


\* C20: a ray that has r <= rs when a tick begins is not integrated in that
\* tick: the tick removes it, and the ray as Ray::step leaves it (r, phi, dr,
\* dphi, e, l, x, y and trail) is the ray as the tick found it.
C20_CapturedNotIntegrated ==
    [][pc = "tick" =>
          \A i \in 1..Len(rays) :
              Le(rays[i].r, sag_a.r_s) =>
                  /\ \A j \in 1..Len(ident') : ident'[j] # ident[i]
                  /\ \E p \in retired' :
                         /\ p[1] = ident[i]
                         /\ p[2] = "Captured"
                         /\ p[4] = rays[i]
      ]_vars

\* A ray constructed outside the horizon that ticks have integrated and a
\* later tick has found at or below rs.
C20_Witness ==
    /\ pc = "draw"
    /\ ValidMass
    /\ \E p \in retired :
           /\ p[2] = "Captured"
           /\ p[3] > 1
           /\ IsNum(p[4].dr)
           /\ Gt(AsConstructed(p[1]).r, sag_a.r_s)


\* C19: an arrow key pressed, held or released while the camera is a
\* LockedCam changes nothing of the camera: free_position, mode, azimuth,
\* elevation, radius, the two targets and every other field are as before.
C19_ArrowsMoveFreeCamOnly ==
    [][(calls' = calls + 1 /\ last_call' \in FreeCamDirections
                           /\ cam.camera_type = "LockedCam") => cam' = cam]_vars

\* An arrow key has just been handled by a LockedCam that had been a FreeCam
\* and had moved.
C19_Witness ==
    /\ last_call \in FreeCamDirections
    /\ cam.camera_type = "LockedCam"
    /\ cam.free_position # CameraNew.free_position

\* C21, as stated: a tick keeps a ray if and only if the ray had r > rs
\* before the step and has r <= max_distance after it.
C21_KeptIffInsideBand ==
    [][(pc = "tick" /\ ValidMass) =>
          \A i \in 1..Len(rays) :
              /\ \A j \in 1..Len(ident') :
                     ident'[j] = ident[i] =>
                         /\ Gt(rays[i].r, sag_a.r_s)
                         /\ Le(rays'[j].r, max_distance)
              /\ \A p \in retired' :
                     p[1] = ident[i] =>
                         ~(Gt(rays[i].r, sag_a.r_s) /\ Le(p[4].r, max_distance))
      ]_vars

\* C22: the trail is a bounded FIFO.  A tick leaves the trail of a ray it
\* keeps as it was, or with one point, the ray's new position, appended as
\* the last: below capacity nothing else changes; at capacity the first
\* (oldest) point alone is dropped and the others keep their order.  A tick
\* does not touch the trail of a ray it removes, and the event loop and the
\* drawing touch no trail.
C22_TrailIsFifo ==
    [][/\ pc = "tick" =>
             \A i \in 1..Len(rays) :
                 /\ \A j \in 1..Len(ident') :
                        ident'[j] = ident[i] =>
                            \E old \in {rays[i].trail}, new \in {rays'[j].trail},
                               pos \in {vec2(AsF32(rays'[j].x), AsF32(rays'[j].y))} :
                                \/ new = old
                                \/ Len(old) < TrailCap /\ new = Append(old, pos)
                                \/ Len(old) = TrailCap /\ new = Append(Tail(old), pos)
                 /\ \A p \in retired' : p[1] = ident[i] => p[4].trail = rays[i].trail
       /\ pc # "tick" =>
             \A i \in 1..Len(rays) : rays'[i].trail = rays[i].trail
      ]_vars

\* A ray whose trail has been at capacity for two appends: two oldest
\* points have been dropped, one after the other.
C22_Witness ==
    /\ pc = "draw"
    /\ ValidMass
    /\ \E i \in 1..Len(rays) :
           /\ IsNum(rays[i].r)
           /\ Len(rays[i].trail) = TrailCap
           /\ FirstPointEvicted(i)
           /\ frame - born[i] + 1 > TrailCap
           /\ rays[i].trail[TrailCap] = vec2(AsF32(rays[i].x), AsF32(rays[i].y))

\* The state (r, phi, dr, dphi) of a ray.
StateOf(ray) == <<ray.r, ray.phi, ray.dr, ray.dphi>>

\* The derivative of the state y of a ray whose constants are those of ray.
Derivative(ray, y, rs) == geodesic_rhs(WithState(ray, y), rs)

\* y + h * k, entry by entry.
Plus(y_, h_, k_) ==
    Only({<<Add(y[1], Mul(h, k[1])), Add(y[2], Mul(h, k[2])),
            Add(y[3], Mul(h, k[3])), Add(y[4], Mul(h, k[4]))>>
          : y \in {y_}, h \in {h_}, k \in {k_}})

\* The classical fourth-order Runge-Kutta update of the state of ray by h.
ClassicalRk4(ray, h, rs) ==
    Only({Only({Only({Only({Only({
        <<Add(y0[1], Mul(Div(h, Six),
                         Add(Add(Add(k1[1], Mul(Two, k2[1])), Mul(Two, k3[1])), k4[1]))),
          Add(y0[2], Mul(Div(h, Six),
                         Add(Add(Add(k1[2], Mul(Two, k2[2])), Mul(Two, k3[2])), k4[2]))),
          Add(y0[3], Mul(Div(h, Six),
                         Add(Add(Add(k1[3], Mul(Two, k2[3])), Mul(Two, k3[3])), k4[3]))),
          Add(y0[4], Mul(Div(h, Six),
                         Add(Add(Add(k1[4], Mul(Two, k2[4])), Mul(Two, k3[4])), k4[4])))>>
        : k4 \in {Derivative(ray, Plus(y0, h, k3), rs)}})
        : k3 \in {Derivative(ray, Plus(y0, Div(h, Two), k2), rs)}})
        : k2 \in {Derivative(ray, Plus(y0, Div(h, Two), k1), rs)}})
        : k1 \in {Derivative(ray, y0, rs)}})
        : y0 \in {StateOf(ray)}})

\* C23: the state (r, phi, dr, dphi) in which a tick leaves a ray it has
\* integrated (one that was not at or below rs), kept or removed as escaped,
\* is the classical RK4 update of the state the tick found, by the step dlam:
\* k1 at the base state, k2 and k3 at the base plus half a step of k1 and of
\* k2, k4 at the base plus a full step of k3, weights 1, 2, 2, 1 over 6.
C23_ClassicalRk4 ==
    [][pc = "tick" =>
          \A i \in 1..Len(rays) :
              ~Le(rays[i].r, sag_a.r_s) =>
                  \E want \in {ClassicalRk4(rays[i], dlam, sag_a.r_s)} :
                      /\ \A j \in 1..Len(ident') :
                             ident'[j] = ident[i] => StateOf(rays'[j]) = want
                      /\ \A p \in retired' :
                             p[1] = ident[i] => StateOf(p[4]) = want
      ]_vars

\* A ray that two ticks have integrated, each time with an acceleration and
\* a turn, all four entries of its state numbers.
C23_Witness ==
    /\ pc = "draw"
    /\ ValidMass
    /\ \E i \in 1..Len(rays) :
           /\ frame - born[i] + 1 >= 2
           /\ IsNum(rays[i].r) /\ IsNum(rays[i].dr) /\ IsNum(rays[i].dphi)
           /\ Gt(rays[i].r, sag_a.r_s)
           /\ rays[i].dr # AsConstructed(ident[i]).dr
           /\ rays[i].dphi # AsConstructed(ident[i]).dphi
           /\ rays[i].phi # AsConstructed(ident[i]).phi

\* C24: of every ray the renderer reads after a tick, the stored x and y are
\* r * cos(phi) and r * sin(phi) of the r and phi the tick left.
C24_PositionFollowsState ==
    pc = "draw" =>
        \A i \in 1..Len(rays) :
            /\ rays[i].x = Mul(rays[i].r, Cos(rays[i].phi))
            /\ rays[i].y = Mul(rays[i].r, Sin(rays[i].phi))

\* A ray read by the renderer that ticks have moved and turned.
C24_Witness ==
    /\ pc = "draw"
    /\ ValidMass
    /\ \E i \in 1..Len(rays) :
           /\ IsNum(rays[i].x) /\ IsNum(rays[i].y)
           /\ frame - born[i] + 1 >= 2
           /\ rays[i].r # AsConstructed(ident[i]).r
           /\ rays[i].phi # AsConstructed(ident[i]).phi
           /\ rays[i].x # AsConstructed(ident[i]).x
           /\ rays[i].y # AsConstructed(ident[i]).y

\* C25: the trail of every ray in the set has at least one point; the trail
\* of a ray just spawned is the one point of its initial position.
C25_TrailNeverEmpty ==
    /\ [](\A i \in 1..Len(rays) : Len(rays[i].trail) >= 1)
    /\ [][pc = "events" =>
             \A j \in (Len(rays) + 1)..Len(rays') :
                 rays'[j].trail = <<vec2(AsF32(rays'[j].x), AsF32(rays'[j].y))>>]_vars

\* A ray just spawned, its trail of one point, beside a ray whose trail has
\* been at capacity and has lost its first point.
C25_Witness ==
    /\ pc = "tick"
    /\ ValidMass
    /\ \E i, j \in 1..Len(rays) :
           /\ born[i] = frame
           /\ Len(rays[i].trail) = 1
           /\ born[j] < frame
           /\ Len(rays[j].trail) = TrailCap
           /\ FirstPointEvicted(j)

\* C26: the rays of the set are in spawn order (the names of ident are given
\* in spawn order).  A tick keeps the relative order of the rays it keeps;
\* the event loop leaves the rays already there where they are and appends
\* the new ones after them, each batch in the order of its loop index.
C26_SpawnOrderKept ==
    /\ [](\A i, j \in 1..Len(ident) : i < j => ident[i] < ident[j])
    /\ [][/\ pc = "events" =>
                /\ SubSeq(ident', 1, Len(ident)) = ident
                /\ SubSeq(rays', 1, Len(rays)) = rays
                /\ \A j \in (Len(rays) + 1)..Len(rays') :
                       /\ ident'[j] = next_id + (j - Len(rays))
                       /\ rays'[j] = AsConstructed(ident'[j])
          /\ pc = "tick" =>
                \A j \in 1..Len(ident') :
                    \E i \in j..Len(ident) :
                        /\ ident[i] = ident'[j]
                        /\ rays'[j] = step(rays[i], dlam, sag_a.r_s).ray
         ]_vars

\* Rays of two batches in the set, a tick having removed a ray that stood
\* between two rays it kept.
C26_Witness ==
    /\ pc = "draw"
    /\ ValidMass
    /\ \E i, j \in 1..Len(ident) :
           /\ i < j
           /\ \E p \in retired : ident[i] < p[1] /\ p[1] < ident[j]
    /\ \E i, j \in 1..Len(ident) : BatchOf(ident[i]) # BatchOf(ident[j])

\* C27: the rays of a frame are spawned before the frame's tick: the set
\* grows only in the event loop, which the tick follows.  So every ray the
\* renderer reads in the frame it was spawned in is the ray its constructor
\* made after one Ray::step that returned true, no longer in its initial
\* state; and no ray a tick has removed, a ray removed by its first step
\* among them, is read by the renderer.
C27_SteppedBeforeFirstDraw ==
    /\ [](pc = "draw" =>
             /\ \A i \in 1..Len(rays) :
                    born[i] = frame =>
                        \E res \in {step(AsConstructed(ident[i]), dlam, sag_a.r_s)} :
                            /\ res.keep
                            /\ rays[i] = res.ray
                            /\ StateOf(rays[i]) # StateOf(AsConstructed(ident[i]))
             /\ \A p \in retired : p[1] \notin Ids)
    /\ [][Len(rays') > Len(rays) => (pc = "events" /\ pc' = "tick")]_vars

\* The renderer reads a ray spawned in this frame, another ray of the frame
\* having been removed by its first step.
C27_Witness ==
    /\ pc = "draw"
    /\ ValidMass
    /\ \E i \in 1..Len(rays) : born[i] = frame /\ IsNum(rays[i].r)
    /\ \E p \in retired : p[3] = 1 /\ BatchOf(p[1]) = BatchOf(ident[Len(ident)])

\* C28: a tick never makes the ray set larger; the drawing leaves its size;
\* the set grows only in the event loop, and then by SpawnCount rays (50 in
\* main) for every press of Space, whatever its size is.
C28_GrowsByBatchesOnly ==
    [][/\ pc = "tick" => Len(rays') <= Len(rays)
       /\ pc = "draw" => Len(rays') = Len(rays)
       /\ pc = "events" =>
             \E k \in 0..MaxEvents :
                 /\ Len(rays') = Len(rays) + k * SpawnCount
                 /\ next_id' = next_id + k * SpawnCount
      ]_vars

\* The largest set the bounds allow: a batch spawned on top of the rays of
\* earlier batches, none of them removed, after a tick that removed none.
C28_Witness ==
    /\ pc = "tick"
    /\ ValidMass
    /\ Len(rays) = SpawnCount * MaxBatches
    /\ born[1] < frame
    /\ born[Len(rays)] = frame

\* C29, as stated: the elevation of the camera lies in [0.01, pi - 0.01].
C29_ElevationInRange ==
    /\ Le(Lit(1, -2), cam.elevation)
    /\ Le(cam.elevation, Sub32(PI, Lit(1, -2)))

\* Both zoom targets lie in [min_radius, max_radius].
TargetsInRange ==
    /\ Le(cam.min_radius, cam.target_radius) /\ Le(cam.target_radius, cam.max_radius)
    /\ Le(cam.min_radius, cam.target_distance) /\ Le(cam.target_distance, cam.max_radius)

\* No mouse handler of the camera has been called: the last cursor position
\* is that of Camera::new (every cursor event of the sessions has another).
NoMouseMove == cam.last_x = Zero /\ cam.last_y = Zero

\* C30, as stated: after updates, scrolls, set_mode, move_freecam and
\* toggle_camera_type calls alone, both zoom targets lie in
\* [min_radius, max_radius].
C30_TargetsInRange == NoMouseMove => TargetsInRange

\* C29, what the code keeps instead: the elevation leaves the range only as the
\* NaN of a direction taken from a camera that stands in the origin.
C29_InRangeAwayFromOrigin ==
    C29_ElevationInRange \/ (IsNaN(cam.elevation) /\ length(cam.free_position) = Zero)

===========================================================================
